---- MODULE Spec2Model ----
(***************************************************************************)
(* TouchControllerFake (Frontend/library/src/Inputs/TouchControllerFake.ts) *)
(* A single-finger touch-to-mouse emulator: three document listeners        *)
(* (touchstart, touchend, touchmove) keep at most one fakeTouchFinger and   *)
(* translate it to MouseDown / MouseMove / MouseUp messages and synthetic   *)
(* mouseenter / mouseleave events on the video's parent element.            *)
(*                                                                          *)
(* One step of the model is one whole handler invocation (the host runs     *)
(* handlers one at a time, to completion); Return is the handler returning  *)
(* to the event loop, after which the next notification can be delivered.   *)
(***************************************************************************)
EXTENDS Integers, Sequences, FiniteSets

VARIABLES
    fakeTouchFinger,                \* <<>> (null/undefined) or <<[id, x, y]>>
    videoElementParentClientRect,   \* <<>> (never set) or <<[left, top]>>
    videoReady,                     \* what videoPlayer.isVideoReady() answers
    registered,                     \* the three listeners are on the document
    ev,                             \* the notification or call being handled
    out,                            \* effects of the current handler, in order
    log,                            \* names of all messages / hover events so far
    lastTouch                       \* the touch fakeTouchFinger was last written
                                    \* from, with the rectangle cached then

vars == <<fakeTouchFinger, videoElementParentClientRect, videoReady,
          registered, ev, out, log, lastTouch>>

----------------------------------------------------------------------------
(* Bounds of the model *)

\* longest touch list (changedTouches / touches) an event carries
MaxTouches == 2
\* longest history of message and hover-event names that is recorded
MaxLog == 6

----------------------------------------------------------------------------
(* Inputs *)

\* Touch identifiers. The code only compares an identifier with the tracked
\* one (===), so "the tracked id" and "another id" are all the cases.
TouchIds == {1, 2}

\* Client (viewport) positions a touch can report.
ClientPoints == {1, 4} \X {3, 5}

\* Bounding rectangles the owner can cache; left # top in each.
ClientRects == {[left |-> 2, top |-> 1], [left |-> 3, top |-> 2]}

Touches == {[identifier |-> i, clientX |-> p[1], clientY |-> p[2]] :
                i \in TouchIds, p \in ClientPoints}

RECURSIVE SeqsOfLen(_, _)
SeqsOfLen(S, n) ==
    IF n = 0 THEN {<<>>}
    ELSE {Append(s, x) : s \in SeqsOfLen(S, n - 1), x \in S}

\* Non-empty touch lists (the host never delivers an empty one).
TouchLists == UNION {SeqsOfLen(Touches, n) : n \in 1..MaxTouches}

VideoElement == "video"
OtherElement == "other"
Targets == {VideoElement, OtherElement}

NoEvent == [type |-> "none", target |-> "none",
            changedTouches |-> <<>>, touches |-> <<>>, rect |-> <<>>]

\* touchstart and touchend are read through changedTouches, touchmove
\* through touches; the list a handler does not read is left empty.
\* Only onTouchStart reads the target. rect is the argument of a
\* setVideoElementParentClientRect call, empty for everything else.
TouchStartEvents == {[type |-> "touchstart", target |-> tg,
                      changedTouches |-> l, touches |-> <<>>, rect |-> <<>>] :
                        tg \in Targets, l \in TouchLists}
TouchEndEvents == {[type |-> "touchend", target |-> tg,
                    changedTouches |-> l, touches |-> <<>>, rect |-> <<>>] :
                        tg \in {VideoElement}, l \in TouchLists}
TouchMoveEvents == {[type |-> "touchmove", target |-> tg,
                     changedTouches |-> <<>>, touches |-> l, rect |-> <<>>] :
                        tg \in {VideoElement}, l \in TouchLists}

Call(name, arg) == [type |-> name, target |-> "none",
                    changedTouches |-> <<>>, touches |-> <<>>, rect |-> arg]

----------------------------------------------------------------------------
(* Collaborators: MouseButton, CoordinateConverter *)

\* MouseButton.mainButton
mainButton == 0

\* Size of the video player the converter normalises against.
PlayerWidth == 4
PlayerHeight == 8

\* CoordinateConverter.normalizeAndQuantizeUnsigned: the position scaled to
\* 0..65536 of the player size; 65535, 65535 when outside the player.
normalizeAndQuantizeUnsigned(x, y) ==
    IF x < 0 \/ x > PlayerWidth \/ y < 0 \/ y > PlayerHeight
    THEN [inRange |-> FALSE, x |-> 65535, y |-> 65535]
    ELSE [inRange |-> TRUE,
          x |-> (x * 65536) \div PlayerWidth,
          y |-> (y * 65536) \div PlayerHeight]

\* CoordinateConverter.normalizeAndQuantizeSigned: a delta scaled to
\* -32767..32767 of half the player size.
normalizeAndQuantizeSigned(x, y) ==
    [x |-> (x * 32767) \div (PlayerWidth \div 2),
     y |-> (y * 32767) \div (PlayerHeight \div 2)]

----------------------------------------------------------------------------
(* Effects a handler produces *)

\* Every effect records whether fakeTouchFinger is set at the moment it
\* happens (tracked).
Send(name, payload, tracked) ==
    [kind |-> "send", name |-> name, args |-> payload, tracked |-> tracked]
\* new MouseEvent(name, touch) dispatched on the video's parent element
Dispatch(name, touch, tracked) ==
    [kind |-> "dispatch", name |-> name,
     args |-> <<touch.clientX, touch.clientY>>, tracked |-> tracked]
PreventDefault(tracked) ==
    [kind |-> "preventDefault", name |-> "preventDefault", args |-> <<>>,
     tracked |-> tracked]
\* reading .left of an undefined rectangle
TypeError(tracked) ==
    [kind |-> "throw", name |-> "TypeError", args |-> <<>>,
     tracked |-> tracked]

RECURSIVE Names(_)
Names(effects) ==
    IF effects = <<>> THEN <<>>
    ELSE IF Head(effects).kind \in {"send", "dispatch"}
         THEN <<Head(effects).name>> \o Names(Tail(effects))
         ELSE Names(Tail(effects))

----------------------------------------------------------------------------
(* The handlers, as functions of the state they read *)

Null == <<>>
Unset == <<>>

\* Mutant: the target of the event is not compared with the video element.
StartRejected_AnyTarget(ready, e) == ~ready

\* line 64: the early return of onTouchStart
StartRejected(ready, e) == ~ready \/ e.target # VideoElement

\* Mutant: a touch-start replaces the finger that is already tracked.
StartTracksNew_Always(finger) == TRUE

\* line 67: onTouchStart tracks a new finger only when none is tracked
StartTracksNew(finger) == finger = Null

\* Mutant: onTouchEnd and onTouchMove do not ask whether the video is ready.
EndMoveRejected_IgnoresReady(ready, finger) == finger = Null

\* lines 90 and 114: the early return of onTouchEnd and onTouchMove
EndMoveRejected(ready, finger) == ~ready \/ finger = Null

\* Mutant: the x coordinate stays relative to the viewport.
LocalX_Viewport(touch, rect) == touch.clientX

\* Mutant: the y coordinate is offset by the rectangle's left edge.
LocalY_FromLeft(touch, rect) == touch.clientY - rect.left

\* lines 71-72, 99-100, 122-123: client coordinates relative to the rect
LocalX(touch, rect) == touch.clientX - rect.left
LocalY(touch, rect) == touch.clientY - rect.top

\* Mutant: the scan takes the first touch without comparing identifiers.
FirstMatch_Any(list, id) == 1

\* Mutant: the comparison is inverted (!== for ===).
FirstMatch_NotId(list, id) ==
    IF \E t \in 1..Len(list) : list[t].identifier # id
    THEN CHOOSE t \in 1..Len(list) :
            /\ list[t].identifier # id
            /\ \A u \in 1..(t - 1) : list[u].identifier = id
    ELSE 0

\* lines 96-98 and 119-121 with the break: the index of the first touch of
\* the list whose identifier is id, 0 when there is none
FirstMatch(list, id) ==
    IF \E t \in 1..Len(list) : list[t].identifier = id
    THEN CHOOSE t \in 1..Len(list) :
            /\ list[t].identifier = id
            /\ \A u \in 1..(t - 1) : list[u].identifier # id
    ELSE 0

\* lines 68-73: the finger recorded from the first changed touch
StartFinger(e, rect) ==
    [id |-> e.changedTouches[1].identifier,
     x |-> LocalX(e.changedTouches[1], rect),
     y |-> LocalY(e.changedTouches[1], rect)]

\* Mutant: preventDefault is called only when a new finger is tracked.
AlreadyTrackingResult_NoPrevent(finger) == [finger |-> finger, out |-> <<>>]

\* line 86 reached with the block of lines 67-85 skipped: a finger is
\* already tracked, the handler only calls preventDefault
AlreadyTrackingResult(finger) ==
    [finger |-> finger, out |-> <<PreventDefault(finger # Null)>>]

\* lines 63-87. The result is the new fakeTouchFinger and the effects.
TouchStartResult(finger, rect, ready, e) ==
    IF StartRejected(ready, e)
    THEN [finger |-> finger, out |-> <<>>]
    ELSE IF StartTracksNew(finger)
    THEN IF rect = Unset
         THEN [finger |-> finger, out |-> <<TypeError(finger # Null)>>]
         ELSE LET f == StartFinger(e, rect[1])
                  coord == normalizeAndQuantizeUnsigned(f.x, f.y)
              IN [finger |-> <<f>>,
                  out |-> <<Dispatch("mouseenter", e.changedTouches[1], TRUE),
                            Send("MouseDown",
                                 <<mainButton, coord.x, coord.y>>, TRUE),
                            PreventDefault(TRUE)>>]
    ELSE AlreadyTrackingResult(finger)

\* Mutant: preventDefault is called only inside the matching branch.
NoMatchResult_NoPrevent(finger) == [finger |-> finger, out |-> <<>>]

\* Mutant: a touch-end or touch-move without the tracked id drops the
\* tracked finger.
NoMatchResult_Clears(finger) ==
    [finger |-> Null, out |-> <<PreventDefault(FALSE)>>]

\* lines 110 and 135: the scan found no touch with the tracked id; the
\* handler falls through to preventDefault
NoMatchResult(finger) ==
    [finger |-> finger, out |-> <<PreventDefault(finger # Null)>>]

\* Mutant: the matching touch-end does not clear fakeTouchFinger.
TouchEndTracked_NoClear(finger, rect, e) ==
    LET t == FirstMatch(e.changedTouches, finger[1].id)
    IN IF t = 0
       THEN NoMatchResult(finger)
       ELSE IF rect = Unset
       THEN [finger |-> finger, out |-> <<TypeError(TRUE)>>]
       ELSE LET touch == e.changedTouches[t]
                coord == normalizeAndQuantizeUnsigned(
                             LocalX(touch, rect[1]), LocalY(touch, rect[1]))
            IN [finger |-> finger,
                out |-> <<Send("MouseUp",
                               <<mainButton, coord.x, coord.y>>, TRUE),
                          Dispatch("mouseleave", touch, TRUE),
                          PreventDefault(TRUE)>>]

\* Mutant: the matching touch-end clears fakeTouchFinger before it
\* dispatches mouseleave.
TouchEndTracked_ClearsFirst(finger, rect, e) ==
    LET t == FirstMatch(e.changedTouches, finger[1].id)
    IN IF t = 0
       THEN NoMatchResult(finger)
       ELSE IF rect = Unset
       THEN [finger |-> finger, out |-> <<TypeError(TRUE)>>]
       ELSE LET touch == e.changedTouches[t]
                coord == normalizeAndQuantizeUnsigned(
                             LocalX(touch, rect[1]), LocalY(touch, rect[1]))
            IN [finger |-> Null,
                out |-> <<Send("MouseUp",
                               <<mainButton, coord.x, coord.y>>, TRUE),
                          Dispatch("mouseleave", touch, FALSE),
                          PreventDefault(FALSE)>>]

\* lines 93-110: onTouchEnd past its early return
TouchEndTracked(finger, rect, e) ==
    LET t == FirstMatch(e.changedTouches, finger[1].id)
    IN IF t = 0
       THEN NoMatchResult(finger)
       ELSE IF rect = Unset
       THEN [finger |-> finger, out |-> <<TypeError(TRUE)>>]
       ELSE LET touch == e.changedTouches[t]
                coord == normalizeAndQuantizeUnsigned(
                             LocalX(touch, rect[1]), LocalY(touch, rect[1]))
            IN [finger |-> Null,
                out |-> <<Send("MouseUp",
                               <<mainButton, coord.x, coord.y>>, TRUE),
                          Dispatch("mouseleave", touch, TRUE),
                          PreventDefault(FALSE)>>]

\* Mutant: onTouchEnd returns early only when the video is not ready, and
\* calls preventDefault also when no finger is tracked.
TouchEndResult_PreventsWhenIdle(finger, rect, ready, e) ==
    IF ~ready
    THEN [finger |-> finger, out |-> <<>>]
    ELSE IF finger = Null
    THEN [finger |-> finger, out |-> <<PreventDefault(FALSE)>>]
    ELSE TouchEndTracked(finger, rect, e)

\* lines 89-111
TouchEndResult(finger, rect, ready, e) ==
    IF EndMoveRejected(ready, finger)
    THEN [finger |-> finger, out |-> <<>>]
    ELSE TouchEndTracked(finger, rect, e)

\* lines 117-135: onTouchMove past its early return
TouchMoveTracked(finger, rect, e) ==
    LET t == FirstMatch(e.touches, finger[1].id)
    IN IF t = 0
       THEN NoMatchResult(finger)
       ELSE IF rect = Unset
       THEN [finger |-> finger, out |-> <<TypeError(TRUE)>>]
       ELSE LET touch == e.touches[t]
                x == LocalX(touch, rect[1])
                y == LocalY(touch, rect[1])
                coord == normalizeAndQuantizeUnsigned(x, y)
                delta == normalizeAndQuantizeSigned(
                             x - finger[1].x, y - finger[1].y)
            IN [finger |-> <<[id |-> finger[1].id, x |-> x, y |-> y]>>,
                out |-> <<Send("MouseMove",
                               <<coord.x, coord.y, delta.x, delta.y>>, TRUE),
                          PreventDefault(TRUE)>>]

\* lines 113-136
TouchMoveResult(finger, rect, ready, e) ==
    IF EndMoveRejected(ready, finger)
    THEN [finger |-> finger, out |-> <<>>]
    ELSE TouchMoveTracked(finger, rect, e)

----------------------------------------------------------------------------
(* State machine *)

\* After the constructor (lines 31-47): no finger, no rectangle, the three
\* listeners registered. The video may or may not be ready yet.
Init ==
    /\ fakeTouchFinger = Null
    /\ videoElementParentClientRect = Unset
    /\ videoReady \in BOOLEAN
    /\ registered = TRUE
    /\ ev = NoEvent
    /\ out = <<>>
    /\ log = <<>>
    /\ lastTouch = <<>>

Idle == ev = NoEvent

Sent(effects, name) ==
    \E i \in 1..Len(effects) :
        effects[i].kind = "send" /\ effects[i].name = name

\* History of the tracked finger: the touch whose client coordinates were
\* last stored (lines 69-73, 130-131) and the rectangle cached at that time;
\* empty when no finger is tracked.
Origin(touch, rect) ==
    <<[clientX |-> touch.clientX, clientY |-> touch.clientY,
       left |-> rect[1].left, top |-> rect[1].top]>>
LastTouch(e, res, rect, prev) ==
    IF res.finger = Null THEN <<>>
    ELSE IF Sent(res.out, "MouseDown")
    THEN Origin(e.changedTouches[1], rect)
    ELSE IF Sent(res.out, "MouseMove")
    THEN Origin(e.touches[FirstMatch(e.touches, res.finger[1].id)], rect)
    ELSE prev

\* A handler ran: its result becomes the state, its effects are recorded.
Handled(e, res) ==
    /\ Len(log) + Len(Names(res.out)) <= MaxLog
    /\ fakeTouchFinger' = res.finger
    /\ ev' = e
    /\ out' = res.out
    /\ log' = log \o Names(res.out)
    /\ lastTouch' = LastTouch(e, res, videoElementParentClientRect, lastTouch)
    /\ UNCHANGED <<videoElementParentClientRect, videoReady, registered>>

\* The document has no listener for the notification (lines 50-52 ran):
\* no handler is invoked.
Unheard(e) ==
    /\ ev' = e
    /\ out' = <<>>
    /\ UNCHANGED <<fakeTouchFinger, videoElementParentClientRect,
                   videoReady, registered, log, lastTouch>>

\* The document notifies of a touch event: the listener registered at
\* lines 44-46 runs, if it is still registered.
Notified(e, res) == IF registered THEN Handled(e, res) ELSE Unheard(e)

onTouchStart ==
    /\ Idle
    /\ \E e \in TouchStartEvents :
          Notified(e, TouchStartResult(fakeTouchFinger,
                         videoElementParentClientRect, videoReady, e))

onTouchEnd ==
    /\ Idle
    /\ \E e \in TouchEndEvents :
          Notified(e, TouchEndResult(fakeTouchFinger,
                         videoElementParentClientRect, videoReady, e))

onTouchMove ==
    /\ Idle
    /\ \E e \in TouchMoveEvents :
          Notified(e, TouchMoveResult(fakeTouchFinger,
                         videoElementParentClientRect, videoReady, e))

\* Mutant: the rectangle is cached on the first call only.
setVideoElementParentClientRect_OnlyOnce ==
    /\ Idle
    /\ \E r \in ClientRects :
          /\ videoElementParentClientRect' =
                IF videoElementParentClientRect = Unset
                THEN <<r>> ELSE videoElementParentClientRect
          /\ ev' = Call("setVideoElementParentClientRect", <<r>>)
    /\ out' = <<>>
    /\ UNCHANGED <<fakeTouchFinger, videoReady, registered, log, lastTouch>>

\* lines 59-61
setVideoElementParentClientRect ==
    /\ Idle
    /\ \E r \in ClientRects :
          /\ videoElementParentClientRect' = <<r>>
          /\ ev' = Call("setVideoElementParentClientRect", <<r>>)
    /\ out' = <<>>
    /\ UNCHANGED <<fakeTouchFinger, videoReady, registered, log, lastTouch>>

\* Mutant: removeEventListener is given functions that were never
\* registered (fresh bind() results), so the listeners stay.
unregisterTouchEvents_KeepsListeners ==
    /\ Idle
    /\ ev' = Call("unregisterTouchEvents", <<>>)
    /\ out' = <<>>
    /\ UNCHANGED <<fakeTouchFinger, videoElementParentClientRect,
                   videoReady, registered, log, lastTouch>>

\* Mutant: unregistering also releases the tracked finger.
unregisterTouchEvents_ReleasesFinger ==
    /\ Idle
    /\ registered' = FALSE
    /\ fakeTouchFinger' = Null
    /\ lastTouch' = <<>>
    /\ ev' = Call("unregisterTouchEvents", <<>>)
    /\ out' = <<>>
    /\ UNCHANGED <<videoElementParentClientRect, videoReady, log>>

\* lines 49-53
unregisterTouchEvents ==
    /\ Idle
    /\ registered' = FALSE
    /\ ev' = Call("unregisterTouchEvents", <<>>)
    /\ out' = <<>>
    /\ UNCHANGED <<fakeTouchFinger, videoElementParentClientRect,
                   videoReady, log, lastTouch>>

\* The video player becomes ready or stops being ready.
VideoReadyChanges ==
    /\ Idle
    /\ videoReady' = ~videoReady
    /\ ev' = Call("videoReady", <<>>)
    /\ out' = <<>>
    /\ UNCHANGED <<fakeTouchFinger, videoElementParentClientRect,
                   registered, log, lastTouch>>

\* The handler or call returns to the event loop.
Return ==
    /\ ~Idle
    /\ ev' = NoEvent
    /\ out' = <<>>
    /\ UNCHANGED <<fakeTouchFinger, videoElementParentClientRect,
                   videoReady, registered, log, lastTouch>>

Next ==
    \/ onTouchStart
    \/ onTouchEnd
    \/ onTouchMove
    \/ setVideoElementParentClientRect
    \/ unregisterTouchEvents
    \/ VideoReadyChanges
    \/ Return

Spec == Init /\ [][Next]_vars

----------------------------------------------------------------------------
(* Vocabulary of the properties *)

Sends(effects) == SelectSeq(effects, LAMBDA x : x.kind = "send")
Dispatches(effects) == SelectSeq(effects, LAMBDA x : x.kind = "dispatch")
Prevented(effects) ==
    \E i \in 1..Len(effects) : effects[i].kind = "preventDefault"

\* The step is one invocation of the handler for notifications of this type.
Handles(type) == ev = NoEvent /\ ev'.type = type /\ registered

\* The step is one call of this method, or one notification of this type
\* whether or not a listener hears it.
Occurs(type) == ev = NoEvent /\ ev'.type = type

Tracking == fakeTouchFinger # Null

HasId(list, id) == \E t \in 1..Len(list) : list[t].identifier = id

\* t is the first touch of list with this id
IsFirstWithId(list, t, id) ==
    /\ t \in 1..Len(list)
    /\ list[t].identifier = id
    /\ \A u \in 1..(t - 1) : list[u].identifier # id

----------------------------------------------------------------------------
(* C1 *)

\* C1: at most one finger is tracked in every reachable state, and a
\* touch-start handled while a finger is tracked sends no protocol message
\* and leaves the tracked finger (id, x, y) exactly as it was, whatever
\* touches, target and readiness the event comes with.
C1_SecondTouchStartIgnored ==
    /\ [](Len(fakeTouchFinger) <= 1)
    /\ [][(Handles("touchstart") /\ Tracking) =>
            /\ Sends(out') = <<>>
            /\ fakeTouchFinger' = fakeTouchFinger]_vars

\* A qualifying touch-start of another finger was handled while Tracking.
C1_Witness ==
    /\ registered
    /\ ev.type = "touchstart" /\ ev.target = VideoElement /\ videoReady
    /\ Tracking
    /\ ev.changedTouches[1].identifier # fakeTouchFinger[1].id
    /\ out = <<PreventDefault(TRUE)>>

----------------------------------------------------------------------------
(* C2 *)

\* C2: a touch-start on the video element, handled while Idle and while the
\* video is ready, tracks the first changed touch (id = identifier,
\* x = clientX - rect.left, y = clientY - rect.top) and sends exactly one
\* MouseDown [mainButton, nx, ny], (nx, ny) the unsigned normalisation of
\* (x, y).
C2_TouchStartTracksFirstTouch ==
    [][(Handles("touchstart") /\ ev'.target = VideoElement
            /\ ~Tracking /\ videoReady) =>
        /\ videoElementParentClientRect # Unset
        /\ LET first == ev'.changedTouches[1]
               x == first.clientX - videoElementParentClientRect[1].left
               y == first.clientY - videoElementParentClientRect[1].top
               coord == normalizeAndQuantizeUnsigned(x, y)
           IN /\ fakeTouchFinger' =
                    <<[id |-> first.identifier, x |-> x, y |-> y]>>
              /\ Sends(out') = <<Send("MouseDown",
                                      <<mainButton, coord.x, coord.y>>, TRUE)>>
       ]_vars

----------------------------------------------------------------------------
(* C3 *)

\* C3: a touch-start handled while Idle whose target is not the video
\* element, or while the video is not ready, sends no message, dispatches no
\* hover event and leaves the emulator Idle; so does any sequence of them.
C3_RejectedTouchStartIsNoOp ==
    [][(Handles("touchstart") /\ ~Tracking
            /\ (ev'.target # VideoElement \/ ~videoReady)) =>
        /\ Sends(out') = <<>>
        /\ Dispatches(out') = <<>>
        /\ log' = log
        /\ fakeTouchFinger' = Null]_vars

\* A touch-start off the video element was handled while Idle, the video
\* ready and the rectangle set.
C3_Witness ==
    /\ registered
    /\ ev.type = "touchstart" /\ ev.target = OtherElement
    /\ videoReady /\ videoElementParentClientRect # Unset
    /\ ~Tracking /\ out = <<>>

----------------------------------------------------------------------------
(* C4 *)

\* What C4 says of a touch-move carrying the tracked id.
MoveSendsOneMouseMove ==
    \E t \in 1..Len(ev'.touches) :
        /\ IsFirstWithId(ev'.touches, t, fakeTouchFinger[1].id)
        /\ LET newX == ev'.touches[t].clientX
                          - videoElementParentClientRect[1].left
               newY == ev'.touches[t].clientY
                          - videoElementParentClientRect[1].top
               abs == normalizeAndQuantizeUnsigned(newX, newY)
               delta == normalizeAndQuantizeSigned(
                            newX - fakeTouchFinger[1].x,
                            newY - fakeTouchFinger[1].y)
           IN /\ Sends(out') = <<Send("MouseMove",
                                      <<abs.x, abs.y, delta.x, delta.y>>,
                                      TRUE)>>
              /\ fakeTouchFinger' = <<[id |-> fakeTouchFinger[1].id,
                                       x |-> newX, y |-> newY]>>

\* C4 as stated: a touch-move handled while Tracking whose touch list has a
\* touch with the tracked id sends exactly one MouseMove [ax, ay, dx, dy]
\* and stores the new position, the id unchanged.
C4_Original ==
    [][(Handles("touchmove") /\ Tracking
            /\ HasId(ev'.touches, fakeTouchFinger[1].id)) =>
        MoveSendsOneMouseMove]_vars

\* C4 amended: the same, for a touch-move handled while the video is ready.
C4_MatchingMoveSendsMouseMove ==
    [][(Handles("touchmove") /\ Tracking /\ videoReady
            /\ HasId(ev'.touches, fakeTouchFinger[1].id)) =>
        MoveSendsOneMouseMove]_vars

\* A MouseMove was sent whose delta is non-zero in x and in y, for a touch
\* that is not the first of the list.
C4_Witness ==
    /\ registered
    /\ ev.type = "touchmove" /\ Tracking
    /\ Len(Sends(out)) = 1
    /\ Sends(out)[1].name = "MouseMove"
    /\ Sends(out)[1].args[3] # 0 /\ Sends(out)[1].args[4] # 0
    /\ ev.touches[1].identifier # fakeTouchFinger[1].id

----------------------------------------------------------------------------
(* C5 *)

\* What C5 says of a touch-end carrying the tracked id.
EndSendsOneMouseUp ==
    \E t \in 1..Len(ev'.changedTouches) :
        /\ IsFirstWithId(ev'.changedTouches, t, fakeTouchFinger[1].id)
        /\ LET touch == ev'.changedTouches[t]
               coord == normalizeAndQuantizeUnsigned(
                            touch.clientX - videoElementParentClientRect[1].left,
                            touch.clientY - videoElementParentClientRect[1].top)
           IN /\ Sends(out') = <<Send("MouseUp",
                                      <<mainButton, coord.x, coord.y>>, TRUE)>>
              /\ Len(Dispatches(out')) = 1
              /\ Dispatches(out')[1].name = "mouseleave"
              /\ fakeTouchFinger' = Null

\* The last thing emitted was the mouseleave of a matching touch-end.
AfterTouchEnd == log # <<>> /\ log[Len(log)] = "mouseleave"

\* A qualifying touch-start handled after a touch-end is accepted.
NextTouchStartAccepted ==
    (Handles("touchstart") /\ AfterTouchEnd
        /\ ev'.target = VideoElement /\ videoReady) =>
    /\ fakeTouchFinger' # Null
    /\ Len(Sends(out')) = 1
    /\ Sends(out')[1].name = "MouseDown"

\* C5 as stated: a touch-end handled while Tracking whose changed-touch list
\* has the tracked id sends exactly one MouseUp, dispatches exactly one
\* mouseleave and returns to Idle; a following qualifying touch-start is
\* accepted and sends a new MouseDown.
C5_Original ==
    [][/\ (Handles("touchend") /\ Tracking
              /\ HasId(ev'.changedTouches, fakeTouchFinger[1].id)) =>
          EndSendsOneMouseUp
       /\ NextTouchStartAccepted]_vars

\* C5 amended: the same, for a touch-end handled while the video is ready.
C5_MatchingEndSendsMouseUp ==
    [][/\ (Handles("touchend") /\ Tracking /\ videoReady
              /\ HasId(ev'.changedTouches, fakeTouchFinger[1].id)) =>
          EndSendsOneMouseUp
       /\ NextTouchStartAccepted]_vars

\* Down, up, and a second touch-start accepted after the touch-end.
C5_Witness ==
    /\ registered
    /\ ev.type = "touchstart" /\ Tracking
    /\ Len(log) >= 6
    /\ SubSeq(log, Len(log) - 3, Len(log)) =
          <<"MouseUp", "mouseleave", "mouseenter", "MouseDown">>

----------------------------------------------------------------------------
(* C6 *)

\* C6: a touch-move handled while Tracking whose touch list has no touch
\* with the tracked id sends no message and leaves the tracked finger's id
\* and stored position unchanged.
C6_UnmatchedMoveChangesNothing ==
    [][(Handles("touchmove") /\ Tracking
            /\ ~HasId(ev'.touches, fakeTouchFinger[1].id)) =>
        /\ Sends(out') = <<>>
        /\ fakeTouchFinger' = fakeTouchFinger]_vars

\* A touch-move without the tracked id was handled while Tracking and ready.
C6_Witness ==
    /\ registered
    /\ ev.type = "touchmove" /\ Tracking /\ videoReady
    /\ ~HasId(ev.touches, fakeTouchFinger[1].id)
    /\ Len(ev.touches) = 2
    /\ Sends(out) = <<>> /\ Prevented(out)

----------------------------------------------------------------------------
(* C7 *)

\* C7: a touch-end handled while Tracking whose changed-touch list has no
\* touch with the tracked id leaves the emulator Tracking the same finger
\* (id, x, y), sends no message and dispatches no mouseleave.
C7_UnmatchedEndChangesNothing ==
    [][(Handles("touchend") /\ Tracking
            /\ ~HasId(ev'.changedTouches, fakeTouchFinger[1].id)) =>
        /\ Sends(out') = <<>>
        /\ Dispatches(out') = <<>>
        /\ fakeTouchFinger' = fakeTouchFinger
        /\ fakeTouchFinger' # Null]_vars

\* A touch-end without the tracked id was handled while Tracking and ready.
C7_Witness ==
    /\ registered
    /\ ev.type = "touchend" /\ Tracking /\ videoReady
    /\ ~HasId(ev.changedTouches, fakeTouchFinger[1].id)
    /\ Sends(out) = <<>> /\ Prevented(out)

----------------------------------------------------------------------------
(* C8 *)

\* C8: a touch-move or touch-end handled while Idle is a complete no-op:
\* still Idle, no message, no hover event, preventDefault not called.
C8_MoveEndWhileIdleIsNoOp ==
    [][((Handles("touchmove") \/ Handles("touchend")) /\ ~Tracking) =>
        /\ fakeTouchFinger' = Null
        /\ Sends(out') = <<>>
        /\ Dispatches(out') = <<>>
        /\ ~Prevented(out')
        /\ log' = log]_vars

\* A touch-end was handled while Idle, the video ready and the rectangle set.
C8_Witness ==
    /\ registered
    /\ ev.type = "touchend" /\ ~Tracking /\ videoReady
    /\ videoElementParentClientRect # Unset
    /\ out = <<>>

----------------------------------------------------------------------------
(* C9 *)

\* C9 as stated: whenever a finger is tracked when a touch-move or touch-end
\* is handled, preventDefault is called, whether or not the event carries
\* the tracked id.
C9_Original ==
    [][((Handles("touchmove") \/ Handles("touchend")) /\ Tracking) =>
        Prevented(out')]_vars

\* C9 amended: whenever a finger is tracked and the video is ready when a
\* touch-move or touch-end is handled, preventDefault is called, whether or
\* not the event carries the tracked id.
C9_PreventDefaultWhileTracking ==
    [][((Handles("touchmove") \/ Handles("touchend"))
            /\ Tracking /\ videoReady) =>
        Prevented(out')]_vars

\* preventDefault was called for a touch-end that does not carry the
\* tracked id.
C9_Witness ==
    /\ registered
    /\ ev.type = "touchend" /\ Tracking
    /\ ~HasId(ev.changedTouches, fakeTouchFinger[1].id)
    /\ out = <<PreventDefault(TRUE)>>

----------------------------------------------------------------------------
(* C10 *)

\* C10 as stated: in every Tracking state the stored position is the tracked
\* touch's last handled client coordinates minus the top-left of the
\* rectangle cached now.
C10_Original ==
    Tracking =>
        /\ lastTouch # <<>> /\ videoElementParentClientRect # Unset
        /\ fakeTouchFinger[1].x =
              lastTouch[1].clientX - videoElementParentClientRect[1].left
        /\ fakeTouchFinger[1].y =
              lastTouch[1].clientY - videoElementParentClientRect[1].top

\* C10 amended: in every Tracking state the stored position is the tracked
\* touch's last handled client coordinates minus the top-left of the
\* rectangle that was cached when that touch was handled; it equals the
\* rectangle cached now if setVideoElementParentClientRect has not replaced
\* it since.
C10_PositionRelativeToRectWhenHandled ==
    Tracking =>
        /\ lastTouch # <<>>
        /\ fakeTouchFinger[1].x = lastTouch[1].clientX - lastTouch[1].left
        /\ fakeTouchFinger[1].y = lastTouch[1].clientY - lastTouch[1].top

\* Tracking, with the rectangle replaced since the position was stored.
C10_Witness ==
    /\ Tracking /\ lastTouch # <<>>
    /\ ev.type = "setVideoElementParentClientRect"
    /\ videoElementParentClientRect[1].left # lastTouch[1].left
    /\ fakeTouchFinger[1].x = lastTouch[1].clientX - lastTouch[1].left

----------------------------------------------------------------------------
(* C11 *)

\* C11: once a finger f is tracked, every step that is not the handling of
\* a touch-end carrying f in its changed-touch list leaves the emulator
\* Tracking f; and every touch-start handled meanwhile, qualifying ones
\* with other ids included, sends no MouseDown and leaves the tracked
\* finger unchanged. So without such a touch-end the emulator tracks f in
\* every later state.
C11_StuckWithoutMatchingTouchEnd ==
    [][Tracking =>
        /\ ~(Handles("touchend")
                /\ HasId(ev'.changedTouches, fakeTouchFinger[1].id)) =>
              /\ fakeTouchFinger' # Null
              /\ fakeTouchFinger'[1].id = fakeTouchFinger[1].id
        /\ Handles("touchstart") =>
              /\ ~Sent(out', "MouseDown")
              /\ fakeTouchFinger' = fakeTouchFinger]_vars

\* After a MouseMove of the tracked finger, a qualifying touch-start that
\* carries only another id was handled, and the finger is still tracked.
C11_Witness ==
    /\ registered /\ videoReady /\ Tracking
    /\ log = <<"mouseenter", "MouseDown", "MouseMove">>
    /\ ev.type = "touchstart" /\ ev.target = VideoElement
    /\ Len(ev.changedTouches) = 2
    /\ ~HasId(ev.changedTouches, fakeTouchFinger[1].id)
    /\ ~Sent(out, "MouseDown")

----------------------------------------------------------------------------
(* C12 *)

Threw(effects) == \E i \in 1..Len(effects) : effects[i].kind = "throw"

\* C12: no handler ends in an error, whatever the sequence of touch
\* events, readiness changes and setVideoElementParentClientRect calls, a
\* qualifying touch-start before the first such call included.
C12_NoHandlerThrows == ~Threw(out)

----------------------------------------------------------------------------
(* C13 *)

\* C13: unregisterTouchEvents removes the three listeners: once it has
\* run, no touch-start, touch-move or touch-end notification changes the
\* tracked finger, sends a message or dispatches a hover event (none
\* invokes a handler), and the listeners stay removed; calling it again,
\* with no listener registered, changes nothing.
C13_NoHandlingAfterUnregister ==
    [][/\ Occurs("unregisterTouchEvents") =>
            /\ ~registered'
            /\ UNCHANGED <<fakeTouchFinger, videoElementParentClientRect,
                           videoReady, log, lastTouch>>
            /\ out' = <<>>
       /\ ~registered =>
            /\ ~registered'
            /\ UNCHANGED <<fakeTouchFinger, log, lastTouch>>
            /\ out' = <<>>]_vars

\* After unregisterTouchEvents, the document notified of a qualifying
\* touch-start while Idle, ready and with a rectangle cached: nothing was
\* tracked or sent.
C13_Witness ==
    /\ ~registered /\ videoReady /\ videoElementParentClientRect # Unset
    /\ ev.type = "touchstart" /\ ev.target = VideoElement
    /\ ~Tracking /\ out = <<>>

----------------------------------------------------------------------------
(* C14 *)

\* The touch a message is computed from: the first changed touch for
\* MouseDown, the first touch with the tracked id for MouseMove (touches)
\* and MouseUp (changedTouches).
MessageTouch(name, e, id) ==
    IF name = "MouseDown" THEN e.changedTouches[1]
    ELSE IF name = "MouseMove"
    THEN e.touches[CHOOSE t \in 1..Len(e.touches) :
                        IsFirstWithId(e.touches, t, id)]
    ELSE e.changedTouches[CHOOSE t \in 1..Len(e.changedTouches) :
                        IsFirstWithId(e.changedTouches, t, id)]

\* The absolute position a message carries.
MessagePosition(msg) ==
    IF msg.name = "MouseMove" THEN <<msg.args[1], msg.args[2]>>
    ELSE <<msg.args[2], msg.args[3]>>

\* C14: setVideoElementParentClientRect(rect) only replaces the cached
\* rectangle by its argument: no message, no hover event, the tracked
\* finger unchanged; nothing else replaces the rectangle, and every
\* MouseDown, MouseMove and MouseUp carries the unsigned normalisation of
\* its touch's client coordinates minus the top-left of the rectangle
\* cached at that moment, which is the one most recently set.
C14_SetRectOnlyReplacesRect ==
    [][/\ Occurs("setVideoElementParentClientRect") =>
            /\ videoElementParentClientRect' = ev'.rect
            /\ ev'.rect # Unset
            /\ out' = <<>>
            /\ UNCHANGED <<fakeTouchFinger, videoReady, registered, log>>
       /\ ~Occurs("setVideoElementParentClientRect") =>
            UNCHANGED videoElementParentClientRect
       /\ \A i \in 1..Len(Sends(out')) :
            LET msg == Sends(out')[i]
                id == IF msg.name = "MouseDown"
                      THEN fakeTouchFinger'[1].id ELSE fakeTouchFinger[1].id
                touch == MessageTouch(msg.name, ev', id)
                coord == normalizeAndQuantizeUnsigned(
                    touch.clientX - videoElementParentClientRect[1].left,
                    touch.clientY - videoElementParentClientRect[1].top)
            IN MessagePosition(msg) = <<coord.x, coord.y>>]_vars

\* While Tracking, after a MouseDown and a MouseMove, the rectangle was
\* replaced by another one than the stored position was computed from.
C14_Witness ==
    /\ ev.type = "setVideoElementParentClientRect"
    /\ Tracking /\ lastTouch # <<>>
    /\ videoElementParentClientRect = ev.rect
    /\ ev.rect[1].left # lastTouch[1].left
    /\ log = <<"mouseenter", "MouseDown", "MouseMove">>

----------------------------------------------------------------------------
(* C15 *)

MessageNames == {"MouseDown", "MouseMove", "MouseUp"}
Messages(names) == SelectSeq(names, LAMBDA n : n \in MessageNames)

\* names is a prefix of (MouseDown MouseMove* MouseUp)*; down says whether
\* a MouseDown is waiting for its MouseUp.
RECURSIVE DownMovesUp(_, _)
DownMovesUp(names, down) ==
    IF names = <<>> THEN TRUE
    ELSE IF Head(names) = "MouseDown"
    THEN ~down /\ DownMovesUp(Tail(names), TRUE)
    ELSE IF Head(names) = "MouseMove"
    THEN down /\ DownMovesUp(Tail(names), TRUE)
    ELSE down /\ DownMovesUp(Tail(names), FALSE)

\* C15: the messages sent so far form a prefix of
\* (MouseDown MouseMove* MouseUp)*, and a MouseMove or MouseUp is sent only
\* while a finger is tracked and only for an event whose list carries that
\* finger's id.
C15_MessagesAreDownMovesUp ==
    /\ [](DownMovesUp(Messages(log), FALSE))
    /\ [][\A i \in 1..Len(Sends(out')) :
            /\ Sends(out')[i].name = "MouseMove" =>
                 /\ Tracking /\ ev'.type = "touchmove"
                 /\ HasId(ev'.touches, fakeTouchFinger[1].id)
            /\ Sends(out')[i].name = "MouseUp" =>
                 /\ Tracking /\ ev'.type = "touchend"
                 /\ HasId(ev'.changedTouches, fakeTouchFinger[1].id)]_vars

\* A whole MouseDown, MouseMove, MouseUp cycle has been sent.
C15_Witness ==
    /\ Messages(log) = <<"MouseDown", "MouseMove", "MouseUp">>
    /\ ev.type = "touchend" /\ ~Tracking

----------------------------------------------------------------------------
(* C16 *)

\* C16 as stated: every touch-start handled while a finger is tracked has
\* preventDefault called and sends no message, whatever its target and
\* whatever the readiness of the video.
C16_Original ==
    [][(Handles("touchstart") /\ Tracking) =>
        /\ Prevented(out')
        /\ Sends(out') = <<>>]_vars

\* C16 amended: a touch-start handled while a finger is tracked sends no
\* message; preventDefault is called when the video is ready and the target
\* is the video element, and is not called otherwise.
C16_TouchStartWhileTracking ==
    [][(Handles("touchstart") /\ Tracking) =>
        /\ Sends(out') = <<>>
        /\ Prevented(out') <=>
              (videoReady /\ ev'.target = VideoElement)]_vars

\* A touch-start off the video element was handled while Tracking and
\* ready: preventDefault was not called.
C16_Witness ==
    /\ registered /\ videoReady /\ Tracking
    /\ ev.type = "touchstart" /\ ev.target = OtherElement
    /\ out = <<>>

----------------------------------------------------------------------------
(* C17 *)

\* Names and tracked flags of the messages and hover events, in order.
Emitted(effects) ==
    LET e == SelectSeq(effects, LAMBDA x : x.kind \in {"send", "dispatch"})
    IN [i \in 1..Len(e) |-> <<e[i].kind, e[i].name, e[i].tracked>>]

\* C17: an accepted touch-start records the finger, then dispatches
\* mouseenter, then sends MouseDown; a matching touch-end sends MouseUp,
\* then dispatches mouseleave with the finger still tracked, then clears
\* the finger; a touch-end sends at most one MouseUp, whatever its list.
C17_OrderOfEffects ==
    [][/\ (Handles("touchstart") /\ Sent(out', "MouseDown")) =>
            /\ Emitted(out') = <<<<"dispatch", "mouseenter", TRUE>>,
                                 <<"send", "MouseDown", TRUE>>>>
            /\ fakeTouchFinger' # Null
       /\ (Handles("touchend") /\ Sent(out', "MouseUp")) =>
            /\ Emitted(out') = <<<<"send", "MouseUp", TRUE>>,
                                 <<"dispatch", "mouseleave", TRUE>>>>
            /\ fakeTouchFinger' = Null
       /\ Handles("touchend") => Len(Sends(out')) <= 1]_vars

\* A touch-end whose two changed touches both carry the tracked id was
\* handled: one MouseUp, then mouseleave.
C17_Witness ==
    /\ registered /\ ev.type = "touchend"
    /\ Len(ev.changedTouches) = 2
    /\ ev.changedTouches[1].identifier = ev.changedTouches[2].identifier
    /\ ev.changedTouches[1].clientX # ev.changedTouches[2].clientX
    /\ Names(out) = <<"MouseUp", "mouseleave">>
    /\ ~Tracking

----------------------------------------------------------------------------
(* C18 *)

\* C18: while the video is not ready every handler is a complete no-op,
\* also with a finger tracked and an event carrying its id: no message, no
\* hover event, no preventDefault, the tracked finger neither updated nor
\* cleared. So a matching touch-end handled then leaves the emulator
\* Tracking when readiness returns.
C18_NotReadyIsNoOp ==
    [][((Handles("touchstart") \/ Handles("touchmove")
            \/ Handles("touchend")) /\ ~videoReady) =>
        /\ out' = <<>>
        /\ UNCHANGED <<fakeTouchFinger, log, lastTouch,
                       videoElementParentClientRect, videoReady>>]_vars

\* A touch-end carrying the tracked id was handled while not ready: the
\* finger is still tracked.
C18_Witness ==
    /\ registered /\ ~videoReady /\ Tracking
    /\ ev.type = "touchend"
    /\ HasId(ev.changedTouches, fakeTouchFinger[1].id)
    /\ out = <<>>

----------------------------------------------------------------------------
(* C19 *)

Count(names, n) == Len(SelectSeq(names, LAMBDA x : x = n))

\* C19: in every reachable state, mouseenter events dispatched minus
\* mouseleave events dispatched is 1 when a finger is tracked and 0 when
\* Idle, and equals MouseDown messages sent minus MouseUp messages sent.
C19_HoverAndButtonBalance ==
    /\ Count(log, "mouseenter") - Count(log, "mouseleave") =
          (IF Tracking THEN 1 ELSE 0)
    /\ Count(log, "mouseenter") - Count(log, "mouseleave") =
          Count(log, "MouseDown") - Count(log, "MouseUp")

\* Tracking for the second time: two mouseenter, one mouseleave.
C19_Witness ==
    /\ Tracking
    /\ Count(log, "mouseenter") = 2 /\ Count(log, "mouseleave") = 1
    /\ Count(log, "MouseDown") = 2 /\ Count(log, "MouseUp") = 1

----------------------------------------------------------------------------
(* C20 *)

\* C20: unregisterTouchEvents called while a finger is tracked leaves the
\* finger tracked, sends no MouseUp and dispatches no mouseleave; and with
\* the listeners removed nothing is sent afterwards, so the MouseDown of
\* that finger stays without a MouseUp.
C20_UnregisterWhileTracking ==
    [][/\ (Occurs("unregisterTouchEvents") /\ Tracking) =>
            /\ fakeTouchFinger' = fakeTouchFinger
            /\ out' = <<>>
            /\ log' = log
       /\ (~registered /\ Tracking) =>
            /\ fakeTouchFinger' = fakeTouchFinger
            /\ log' = log
            /\ Messages(log)[Len(Messages(log))] # "MouseUp"]_vars

\* Listeners removed while Tracking, then the document notified of a
\* touch-end carrying the tracked id: the last message is still not a
\* MouseUp.
C20_Witness ==
    /\ ~registered /\ Tracking /\ videoReady
    /\ ev.type = "touchend"
    /\ HasId(ev.changedTouches, fakeTouchFinger[1].id)
    /\ Messages(log) # <<>>
    /\ Messages(log)[Len(Messages(log))] = "MouseDown"

====
